---- MODULE Spec2Model ----
(***************************************************************************)
(* State-machine model of PostgresVectorStore (src/lib/index.ts) together  *)
(* with the two tables of src/example/sql/00-schema.sql it talks to.       *)
(*                                                                         *)
(* A row is a function from physical column names to values; a column a    *)
(* statement does not name holds NULL.  A statement is a record the        *)
(* executor (pool.query) interprets against the tables.                    *)
(***************************************************************************)
EXTENDS Integers, Sequences, FiniteSets, TLC

VARIABLES
    stores,      \* store id -> immutable configuration (constructor)
    documents,   \* rows of the document table
    embeddings,  \* rows of the embedding table
    docSeq,      \* next value of documents.id (SERIAL)
    embSeq,      \* next value of embeddings.id (SERIAL)
    calls,       \* append call id -> position of that call in its loop
    inflight,    \* insert statements handed to the executor, not yet answered
    stream,      \* the stream last returned by getDocuments() / query()
    ret,         \* outcome of the last createDocument / getDocumentByReference / delete
    created,     \* history: key and store of every createDocument that returned
    written      \* history: embedding id -> append call and input position that inserted it

vars == <<stores, documents, embeddings, docSeq, embSeq, calls, inflight,
          stream, ret, created, written>>

----------------------------------------------------------------------------
(* Bounds *)

MaxDocs == 1      \* createDocument calls in one behaviour
MaxInput == 2     \* length of the input sequence of one append call

----------------------------------------------------------------------------
(* Values *)

NULL == "NULL"              \* SQL NULL / JS null
Absent == "undefined"       \* JS undefined: an option or argument not given
Stores == {"s1", "s2"}
Calls == {1, 2}             \* two callers of append, which may run concurrently
Keys == 1 .. MaxDocs

EmptyScope == <<>>
ScopeValues == {"A", "B", NULL}
Scopes == {EmptyScope} \cup {[scope |-> v] : v \in ScopeValues}

SupportedAlgorithms == {"l1", "l2", "negative_inner_product", "cosine"}
\* "euclidean" is no key of the operator table; "constructor" is no key of it
\* either, but names a property every JS object inherits.
AlgorithmValues == SupportedAlgorithms \cup {Absent, "euclidean", "constructor"}
ObjectPrototypeKeys == {"constructor", "toString", "valueOf", "hasOwnProperty", "__proto__"}

MapKinds == {"identity", "prefix"}

Names == {"Example Doc"}
Records == {[name |-> n] : n \in Names}
              \cup {[name |-> n, scope |-> v] : n \in Names, v \in {"A", "B"}}

Vectors == {<<1, 0>>, <<2, 0>>, <<0, 0>>}

----------------------------------------------------------------------------
(* Rows and SQL values *)

\* Value of a text column of a row; NULL when the insert did not name it.
Col(row, c) == IF c \in DOMAIN row THEN row[c] ELSE NULL

\* `[${value.join(",")}]`, the array literal bound for a vector column, and
\* JSON.parse of the text the driver returns for it.
ArrayLiteral(v) == [literal |-> v]
JsonParse(text) == text.literal

\* Array.isArray(values[i]): of the fields drawn here only "vector" holds an array.
IsArrayField(key) == key = "vector"

----------------------------------------------------------------------------
(* Configuration *)

\* config.option ?? default
Option(config, option, default) ==
    IF option \in DOMAIN config THEN config[option] ELSE default

Constructor(config) ==
    [mapEmbeddingColumn |-> Option(config, "mapEmbeddingColumn", "identity"),
     documentScope      |-> Option(config, "documentScope", EmptyScope),
     embeddingScope     |-> Option(config, "embeddingScope", EmptyScope),
     algorithm          |-> Option(config, "algorithm", "cosine"),
     documentTable      |-> Option(config, "documentTable", "documents"),
     embeddingTable     |-> Option(config, "embeddingTable", "embeddings")]

\* The injected column mapping: the identity, or one that prefixes every
\* name it is handed.
MapEmbeddingColumn(kind, columnName) ==
    IF kind = "identity" THEN columnName ELSE "m_" \o columnName

NoMap == "nomap"
MapColumn(mapFunction, key) ==
    IF mapFunction = NoMap THEN key ELSE MapEmbeddingColumn(mapFunction, key)

----------------------------------------------------------------------------
(* Statement builders *)

\* One equality per entry of the scope, joined by AND; the value is bound
\* as a parameter (value ?? null).  The empty set is the empty fragment.
CreateScopeFilter(scope) ==
    {[column |-> key, value |-> scope[key]] : key \in DOMAIN scope}

\* { ...scope, ...object }: a field of the object replaces the scope's.
FullObject(scope, object) ==
    [key \in DOMAIN scope \cup DOMAIN object |->
        IF key \in DOMAIN object THEN object[key] ELSE scope[key]]

CreateInsertQuery(table, object, scope, mapFunction) ==
    LET fullObject == FullObject(scope, object)
        keys == DOMAIN fullObject
        keyOf(column) == CHOOSE key \in keys : MapColumn(mapFunction, key) = column
    IN [kind  |-> "insert",
        table |-> table,
        row   |-> [column \in {MapColumn(mapFunction, key) : key \in keys} |->
                      IF IsArrayField(keyOf(column))
                      THEN ArrayLiteral(fullObject[keyOf(column)])
                      ELSE fullObject[keyOf(column)]]]

\* The connectives the builders put between n terms of a WHERE clause.
Connectives(n) == [i \in 1 .. (IF n > 0 THEN n - 1 ELSE 0) |-> "AND"]

\* SELECT * / DELETE ... WHERE "id" = $1, then AND <scope filter> when the
\* fragment is not empty.
ByIdWhere(key, scope) ==
    LET scopeFilter == CreateScopeFilter(scope)
    IN <<[kind |-> "id", key |-> key]>>
         \o (IF scopeFilter # {} THEN <<[kind |-> "scope", eqs |-> scopeFilter]>> ELSE <<>>)

\* WHERE of getDocuments(): the scope filter when the fragment is not empty.
ScopeWhere(scope) ==
    LET scopeFilter == CreateScopeFilter(scope)
    IN IF scopeFilter # {} THEN <<[kind |-> "scope", eqs |-> scopeFilter]>> ELSE <<>>

\* { l2: "<->", l1: "<+>", negative_inner_product: "<#>", cosine: "<=>" }[algorithm]:
\* a property lookup on an object literal, which also finds what the literal
\* inherits from Object.prototype; undefined for any other name.
Inherited == "[inherited]"
OperatorOf(algorithm) ==
    CASE algorithm = "l2" -> "<->"
      [] algorithm = "l1" -> "<+>"
      [] algorithm = "negative_inner_product" -> "<#>"
      [] algorithm = "cosine" -> "<=>"
      [] algorithm \in ObjectPrototypeKeys -> Inherited
      [] OTHER -> Absent

\* assert(operator, ...): throws when the operator is falsy.
AssertPasses(operator) == operator # Absent

\* A filters array that leaves the scope filter out.
QueryFiltersNoScope(scope, docCol, allowList) ==
    IF allowList.given
    THEN <<[kind |-> "any", column |-> docCol, keys |-> allowList.keys]>>
    ELSE <<>>

\* The filters array of query(): the scope filter when not empty, then the
\* allow-list when the documents argument is given.
QueryFilters(scope, docCol, allowList) ==
    LET scopeFilter == CreateScopeFilter(scope)
    IN (IF scopeFilter # {} THEN <<[kind |-> "scope", eqs |-> scopeFilter]>> ELSE <<>>)
         \o (IF allowList.given
             THEN <<[kind |-> "any", column |-> docCol, keys |-> allowList.keys]>>
             ELSE <<>>)

QueryStatement(cfg, vector, allowList, limit, offset) ==
    LET vectorCol == MapEmbeddingColumn(cfg.mapEmbeddingColumn, "vector")
        textCol == MapEmbeddingColumn(cfg.mapEmbeddingColumn, "text")
        docCol == MapEmbeddingColumn(cfg.mapEmbeddingColumn, "document")
        filters == QueryFilters(cfg.embeddingScope, docCol, allowList)
    IN [kind        |-> "query",
        table       |-> cfg.embeddingTable,
        columns     |-> [document |-> docCol, text |-> textCol, vector |-> vectorCol],
        operator    |-> OperatorOf(cfg.algorithm),
        vector      |-> ArrayLiteral(vector),
        where       |-> filters,
        connectives |-> Connectives(Len(filters)),
        limit       |-> limit,
        offset      |-> offset]

----------------------------------------------------------------------------
(* The executor: PostgreSQL over the tables of 00-schema.sql *)

\* "column" = $n of a scope filter: unknown, hence not selected, when
\* either side is NULL.
ScopeTermHolds(row, eq) ==
    /\ eq.value # NULL
    /\ eq.column \in DOMAIN row
    /\ row[eq.column] # NULL
    /\ row[eq.column] = eq.value

TermHolds(row, term) ==
    CASE term.kind = "id"    -> row["id"] = term.key
      [] term.kind = "scope" -> \A eq \in term.eqs : ScopeTermHolds(row, eq)
      [] term.kind = "any"   -> /\ term.column \in DOMAIN row
                                /\ row[term.column] \in term.keys

\* A row is selected when the WHERE clause evaluates to true for it; a
\* statement without WHERE selects every row.
Selected(row, stmt) ==
    \/ stmt.where = <<>>
    \/ IF \A i \in DOMAIN stmt.connectives : stmt.connectives[i] = "AND"
       THEN \A i \in DOMAIN stmt.where : TermHolds(row, stmt.where[i])
       ELSE \E i \in DOMAIN stmt.where : TermHolds(row, stmt.where[i])

\* INSERT ... RETURNING "id": the row gets the next SERIAL value.
InsertedRow(stmt, id) ==
    [column \in DOMAIN stmt.row \cup {"id"} |->
        IF column = "id" THEN id ELSE stmt.row[column]]

\* "document" INTEGER NOT NULL REFERENCES "documents" ("id")
ForeignKeyHolds(row, fkColumn, docs) ==
    /\ fkColumn \in DOMAIN row
    /\ \E d \in docs : d["id"] = row[fkColumn]

\* A foreign key without ON DELETE CASCADE enforcement: dependent rows stay.
CascadeDeleteNone(rows, fkColumn, removedKeys) == rows

\* ON DELETE CASCADE
CascadeDelete(rows, fkColumn, removedKeys) ==
    {e \in rows : ~(fkColumn \in DOMAIN e /\ e[fkColumn] \in removedKeys)}


----------------------------------------------------------------------------
(* Distance operators of the vector extension *)

RECURSIVE Sum(_, _)
Sum(f, n) == IF n = 0 THEN 0 ELSE f[n] + Sum(f, n - 1)

Abs(x) == IF x < 0 THEN -x ELSE x
Dot(a, b) == Sum([i \in DOMAIN a |-> a[i] * b[i]], Len(a))
L1(a, b) == Sum([i \in DOMAIN a |-> Abs(a[i] - b[i])], Len(a))
L2Squared(a, b) == Sum([i \in DOMAIN a |-> (a[i] - b[i]) * (a[i] - b[i])], Len(a))

\* The sort key of "a <op> v", a fraction num/den that orders rows as the
\* distance does: <+> the L1 distance, <-> the square of the Euclidean
\* distance, <#> the negated inner product, <=> minus the signed square of
\* the cosine (the distance is 1 - cosine).  den = 0 is NaN: the cosine
\* distance to or from a zero vector.
DistanceKey(operator, a, v) ==
    CASE operator = "<+>" -> [num |-> L1(a, v), den |-> 1]
      [] operator = "<->" -> [num |-> L2Squared(a, v), den |-> 1]
      [] operator = "<#>" -> [num |-> -Dot(a, v), den |-> 1]
      [] operator = "<=>" -> [num |-> -(Dot(a, v) * Abs(Dot(a, v))),
                              den |-> Dot(a, a) * Dot(v, v)]

\* ORDER BY distance ASC: NaN sorts after every number.
DistanceLess(k1, k2) ==
    IF k1.den = 0 THEN FALSE
    ELSE IF k2.den = 0 THEN TRUE
    ELSE k1.num * k2.den < k2.num * k1.den

VectorOperators == {"<+>", "<->", "<#>", "<=>"}

\* All orders in which the executor may return a set of rows.
Orders(S) ==
    {f \in [1 .. Cardinality(S) -> S] : \A i, j \in 1 .. Cardinality(S) : i # j => f[i] # f[j]}

\* LIMIT l OFFSET o
Page(rows, limit, offset) ==
    SubSeq(rows, offset + 1,
           IF offset + limit < Len(rows) THEN offset + limit ELSE Len(rows))

\* The result sets the executor may return for a query statement: the
\* selected rows, ascending by distance (ties in any order), one page of them.
\* rowid is not a column of the result: it records which row a tuple came from.
QueryResults(stmt, rows) ==
    LET selected == {e \in rows : Selected(e, stmt)}
        key(e) == DistanceKey(stmt.operator, JsonParse(e[stmt.columns.vector]),
                              JsonParse(stmt.vector))
        sorted == {f \in Orders(selected) :
                     \A i, j \in DOMAIN f : i < j => ~DistanceLess(key(f[j]), key(f[i]))}
        out(e) == [document |-> e[stmt.columns.document],
                   text     |-> e[stmt.columns.text],
                   vector   |-> e[stmt.columns.vector],
                   distance |-> key(e),
                   rowid    |-> e["id"]]
    IN {Page([i \in DOMAIN f |-> out(f[i])], stmt.limit, stmt.offset) : f \in sorted}

\* The result sets the executor may return for SELECT * FROM documents.
DocumentResults(stmt, rows) == Orders({d \in rows : Selected(d, stmt)})


----------------------------------------------------------------------------
(* Initial state *)

\* The object handed to the constructor; an algorithm of Absent is an
\* object without that option.
Config(documentScope, embeddingScope, algorithm, mapKind) ==
    [option \in {"documentScope", "embeddingScope", "mapEmbeddingColumn"}
                  \cup (IF algorithm = Absent THEN {} ELSE {"algorithm"}) |->
        CASE option = "documentScope" -> documentScope
          [] option = "embeddingScope" -> embeddingScope
          [] option = "mapEmbeddingColumn" -> mapKind
          [] option = "algorithm" -> algorithm]

IdleCall ==
    [pc |-> "idle", store |-> "s1", document |-> 0, input |-> <<>>, i |-> 0,
     rejected |-> "none", error |-> "none"]

NoStatement == [kind |-> "none"]
NoStream ==
    [kind |-> "none", store |-> "s1", state |-> "none", sent |-> FALSE,
     args |-> <<>>, stmt |-> NoStatement, buffer |-> <<>>, rowids |-> <<>>,
     pulled |-> 0, error |-> "none"]

NoReturn ==
    [op |-> "none", store |-> "s1", record |-> <<>>, key |-> 0, result |-> {},
     status |-> "none"]

InitWith(storeConfigs) ==
    /\ stores \in storeConfigs
    /\ documents = {}
    /\ embeddings = {}
    /\ docSeq = 1
    /\ embSeq = 1
    /\ calls = [c \in Calls |-> IdleCall]
    /\ inflight = {}
    /\ stream = NoStream
    /\ ret = NoReturn
    /\ created = {}
    /\ written = {}

\* The foreign-key column of the embedding table: the column the stores'
\* mapping gives the logical name "document".
ForeignKeyColumn == MapEmbeddingColumn(stores["s1"].mapEmbeddingColumn, "document")

----------------------------------------------------------------------------
(* Document operations *)

CreateDocument(s, record) ==
    LET cfg == stores[s]
        stmt == CreateInsertQuery(cfg.documentTable, record, cfg.documentScope, NoMap)
        row == InsertedRow(stmt, docSeq)
        returned == <<[id |-> docSeq]>>
    IN /\ docSeq <= MaxDocs
       /\ documents' = documents \cup {row}
       /\ docSeq' = docSeq + 1
       /\ ret' = [NoReturn EXCEPT !.op = "createDocument", !.store = s, !.record = record,
                     !.key = returned[1].id,
                     !.status = IF Len(returned) = 1 THEN "ok" ELSE "assertion"]
       /\ created' = created \cup {[key |-> returned[1].id, store |-> s]}
       /\ UNCHANGED <<stores, embeddings, embSeq, calls, inflight, stream, written>>

GetDocumentByReference(s, reference) ==
    LET cfg == stores[s]
        stmt == [kind |-> "select", table |-> cfg.documentTable,
                 where |-> ByIdWhere(reference, cfg.documentScope),
                 connectives |-> Connectives(Len(ByIdWhere(reference, cfg.documentScope)))]
    IN \E rows \in DocumentResults(stmt, documents) :
          /\ ret' = [NoReturn EXCEPT !.op = "getDocumentByReference", !.store = s,
                        !.key = reference, !.status = "ok",
                        !.result = IF Len(rows) > 0 THEN {rows[1]} ELSE {}]
          /\ UNCHANGED <<stores, documents, embeddings, docSeq, embSeq, calls, inflight,
                         stream, created, written>>

Delete(s, document) ==
    LET cfg == stores[s]
        stmt == [kind |-> "delete", table |-> cfg.documentTable,
                 where |-> ByIdWhere(document, cfg.documentScope),
                 connectives |-> Connectives(Len(ByIdWhere(document, cfg.documentScope)))]
        removed == {d \in documents : Selected(d, stmt)}
    IN /\ documents' = documents \ removed
       /\ embeddings' = CascadeDelete(embeddings, ForeignKeyColumn, {d["id"] : d \in removed})
       /\ ret' = [NoReturn EXCEPT !.op = "delete", !.store = s, !.key = document,
                                   !.status = "ok"]
          /\ UNCHANGED <<stores, docSeq, embSeq, calls, inflight, stream, created, written>>

----------------------------------------------------------------------------
(* append: one insert at a time *)

AppendStart(c, s, document, input) ==
    /\ calls[c].pc = "idle"
    /\ \A b \in Calls : b < c => calls[b].pc # "idle"
    /\ calls' = [calls EXCEPT ![c] = [IdleCall EXCEPT !.pc = "running", !.store = s,
                                         !.document = document, !.input = input, !.i = 1]]
    /\ UNCHANGED <<stores, documents, embeddings, docSeq, embSeq, inflight, stream, ret,
                   created, written>>

\* A loop body that does not await its insert before taking the next embedding.
AppendIssueNoAwait(c) ==
    LET call == calls[c]
        cfg == stores[call.store]
        embedding == call.input[call.i]
        stmt == CreateInsertQuery(cfg.embeddingTable,
                                  FullObject(embedding, [document |-> call.document]),
                                  cfg.embeddingScope, cfg.mapEmbeddingColumn)
    IN /\ call.pc = "running"
       /\ call.i <= Len(call.input)
       /\ inflight' = inflight \cup {[call |-> c, pos |-> call.i, stmt |-> stmt]}
       /\ calls' = [calls EXCEPT ![c].i = call.i + 1]
       /\ UNCHANGED <<stores, documents, embeddings, docSeq, embSeq, stream, ret,
                      created, written>>

\* The loop body up to its await: build the insert for the next embedding
\* and hand it to the executor.
AppendIssue(c) ==
    LET call == calls[c]
        cfg == stores[call.store]
        embedding == call.input[call.i]
        stmt == CreateInsertQuery(cfg.embeddingTable,
                                  FullObject(embedding, [document |-> call.document]),
                                  cfg.embeddingScope, cfg.mapEmbeddingColumn)
    IN /\ call.pc = "running"
       /\ call.i <= Len(call.input)
       /\ inflight' = inflight \cup {[call |-> c, pos |-> call.i, stmt |-> stmt]}
       /\ calls' = [calls EXCEPT ![c].pc = "awaiting"]
       /\ UNCHANGED <<stores, documents, embeddings, docSeq, embSeq, stream, ret,
                      created, written>>

\* The input sequence is exhausted: the promise of append resolves.
AppendReturn(c) ==
    /\ calls[c].pc = "running"
    /\ calls[c].i > Len(calls[c].input)
    /\ calls' = [calls EXCEPT ![c].pc = "done"]
    /\ UNCHANGED <<stores, documents, embeddings, docSeq, embSeq, inflight, stream, ret,
                   created, written>>

\* The executor performs an insert; the await of the loop body resumes.
ExecInsertOk(m) ==
    LET row == InsertedRow(m.stmt, embSeq)
    IN /\ m \in inflight
       /\ ForeignKeyHolds(row, ForeignKeyColumn, documents)
       /\ embeddings' = embeddings \cup {row}
       /\ embSeq' = embSeq + 1
       /\ inflight' = inflight \ {m}
       /\ written' = written \cup {[id |-> embSeq, call |-> m.call, pos |-> m.pos]}
       /\ calls' = [calls EXCEPT ![m.call].pc = "running", ![m.call].i = m.pos + 1]
       /\ UNCHANGED <<stores, documents, docSeq, stream, ret, created>>

ExecutorErrors == {"foreign_key_violation", "connection_lost"}

\* A loop that catches the rejection of an insert and goes on with the next
\* embedding.
ExecInsertFailSwallowed(m, err) ==
    /\ m \in inflight
    /\ err \in ExecutorErrors
    /\ err = "foreign_key_violation" =>
          ~ForeignKeyHolds(InsertedRow(m.stmt, embSeq), ForeignKeyColumn, documents)
    /\ inflight' = inflight \ {m}
    /\ calls' = [calls EXCEPT ![m.call].pc = "running", ![m.call].i = m.pos + 1,
                              ![m.call].rejected = err]
    /\ UNCHANGED <<stores, documents, embeddings, docSeq, embSeq, stream, ret,
                   created, written>>

\* The executor rejects an insert; the await throws and, with no handler in
\* append, the rejection leaves the loop and reaches the caller.
ExecInsertFail(m, err) ==
    /\ m \in inflight
    /\ err \in ExecutorErrors
    /\ err = "foreign_key_violation" =>
          ~ForeignKeyHolds(InsertedRow(m.stmt, embSeq), ForeignKeyColumn, documents)
    /\ inflight' = inflight \ {m}
    /\ calls' = [calls EXCEPT ![m.call].pc = "failed", ![m.call].rejected = err,
                              ![m.call].error = err]
    /\ UNCHANGED <<stores, documents, embeddings, docSeq, embSeq, stream, ret,
                   created, written>>

----------------------------------------------------------------------------
(* Streams: getDocuments and query *)

GetDocuments(s) ==
    LET cfg == stores[s]
        stmt == [kind |-> "select", table |-> cfg.documentTable,
                 where |-> ScopeWhere(cfg.documentScope),
                 connectives |-> Connectives(Len(ScopeWhere(cfg.documentScope)))]
    IN /\ stream' = [NoStream EXCEPT !.kind = "documents", !.store = s,
                                     !.state = "pending", !.sent = TRUE, !.stmt = stmt]
       /\ UNCHANGED <<stores, documents, embeddings, docSeq, embSeq, calls, inflight, ret,
                      created, written>>

AllowLists == {[given |-> FALSE, keys |-> {}]} \cup {[given |-> TRUE, keys |-> K] : K \in SUBSET Keys}
DefaultLimit == 10
DefaultOffset == 0

Query(s, vector, allowList, limit, offset) ==
    LET cfg == stores[s]
        stmt == QueryStatement(cfg, vector, allowList, limit, offset)
        args == [vector |-> vector, allowList |-> allowList, limit |-> limit,
                 offset |-> offset]
    IN /\ stream' =
             IF AssertPasses(stmt.operator)
             THEN [NoStream EXCEPT !.kind = "query", !.store = s, !.args = args,
                                   !.state = "pending", !.sent = TRUE, !.stmt = stmt]
             ELSE [NoStream EXCEPT !.kind = "query", !.store = s, !.args = args,
                                   !.state = "thrown",
                                   !.error = "Unsupported distance algorithm"]
       /\ UNCHANGED <<stores, documents, embeddings, docSeq, embSeq, calls, inflight, ret,
                      created, written>>

\* The row mapping of query(): text, JSON.parse(vector), distance, document.
ResultTuple(row) ==
    [text |-> row.text, vector |-> JsonParse(row.vector), distance |-> row.distance,
     document |-> row.document]

\* The executor answers the statement of the stream: the promise resolves
\* with the whole array of rows, which the stream then hands out.
ExecSelect ==
    /\ stream.state = "pending"
    /\ IF stream.kind = "documents"
       THEN \E rows \in DocumentResults(stream.stmt, documents) :
               stream' = [stream EXCEPT !.state = "resolved", !.buffer = rows]
       ELSE IF stream.stmt.operator \in VectorOperators
       THEN \E rows \in QueryResults(stream.stmt, embeddings) :
               stream' = [stream EXCEPT !.state = "resolved",
                             !.buffer = [i \in DOMAIN rows |-> ResultTuple(rows[i])],
                             !.rowids = [i \in DOMAIN rows |-> rows[i].rowid]]
       ELSE stream' = [stream EXCEPT !.state = "failed", !.error = "syntax_error"]
    /\ UNCHANGED <<stores, documents, embeddings, docSeq, embSeq, calls, inflight, ret,
                   created, written>>

\* The consumer takes the next element of the stream.
Pull ==
    /\ stream.state = "resolved"
    /\ stream.pulled < Len(stream.buffer)
    /\ stream' = [stream EXCEPT !.pulled = stream.pulled + 1]
    /\ UNCHANGED <<stores, documents, embeddings, docSeq, embSeq, calls, inflight, ret,
                   created, written>>

----------------------------------------------------------------------------
(* Specifications *)

Configs(documentScopes, embeddingScopes, algorithms, mapKinds) ==
    {Constructor(Config(d, e, a, m)) :
        d \in documentScopes, e \in embeddingScopes, a \in algorithms, m \in mapKinds}

\* Two stores over the same tables, hence with the same column mapping.
SharedTables(S) ==
    {f \in S : f["s1"].mapEmbeddingColumn = f["s2"].mapEmbeddingColumn}

\* Documents: two stores with any two document scopes.
DocStoreConfigs ==
    [Stores -> Configs(Scopes, {EmptyScope}, {Absent}, {"identity"})]

InitDocs == InitWith(DocStoreConfigs)

NextDocs ==
    \/ \E s \in Stores, record \in Records : CreateDocument(s, record)
    \/ \E s \in Stores, key \in Keys : GetDocumentByReference(s, key)
    \/ \E s \in Stores, key \in Keys : Delete(s, key)
    \/ \E s \in Stores : GetDocuments(s)
    \/ ExecSelect
    \/ Pull

SpecDocs == InitDocs /\ [][NextDocs]_vars

\* Writes: concurrent append and delete calls of two stores, one per tenant.
WriteStoreConfigs ==
    SharedTables(
        {f \in [Stores -> Configs({[scope |-> "A"], [scope |-> "B"]},
                                  {[scope |-> "A"], [scope |-> "B"]},
                                  {Absent}, {"identity"})] :
            /\ f["s1"].documentScope = [scope |-> "A"]
            /\ f["s1"].embeddingScope = [scope |-> "A"]
            /\ f["s2"].documentScope = [scope |-> "B"]
            /\ f["s2"].embeddingScope = [scope |-> "B"]})

WriteRecords == {[name |-> "Example Doc"]}

\* The embeddings a caller streams into append: a prefix of this feed.
Feed ==
    <<[text |-> "Hello", vector |-> <<1, 0>>],
      [text |-> "World", vector |-> <<2, 0>>, scope |-> "B"],
      [text |-> "Zero", vector |-> <<0, 0>>],
      [text |-> "Again", vector |-> <<1, 0>>]>>
FeedInputs ==
    {SubSeq(Feed, 1, n) : n \in 0 .. (IF MaxInput < Len(Feed) THEN MaxInput ELSE Len(Feed))}

InitWrites == InitWith(WriteStoreConfigs)

NextWrites ==
    \/ \E s \in Stores, record \in WriteRecords : CreateDocument(s, record)
    \/ \E s \in Stores, key \in Keys : Delete(s, key)
    \/ \E c \in Calls, s \in Stores, key \in Keys,
          input \in FeedInputs : AppendStart(c, s, key, input)
    \/ \E c \in Calls : AppendIssue(c)
    \/ \E c \in Calls : AppendReturn(c)
    \/ \E m \in inflight : ExecInsertOk(m)
    \/ \E m \in inflight, err \in ExecutorErrors : ExecInsertFail(m, err)

SpecWrites == InitWrites /\ [][NextWrites]_vars


\* Queries: one store with any algorithm value.
QueryStoreConfigs ==
    {f \in [Stores -> Configs({EmptyScope}, {EmptyScope}, AlgorithmValues, {"identity"})] :
        f["s2"] = f["s1"]}

InitQuery == InitWith(QueryStoreConfigs)

\* limit and offset of a query call: the defaults, or the second row alone.
Pages == {<<DefaultLimit, DefaultOffset>>, <<1, 1>>}

NextQuery ==
    \/ \E record \in WriteRecords : CreateDocument("s1", record)
    \/ \E key \in Keys, input \in FeedInputs : AppendStart(1, "s1", key, input)
    \/ AppendIssue(1)
    \/ AppendReturn(1)
    \/ \E m \in inflight : ExecInsertOk(m)
    \/ \E m \in inflight, err \in ExecutorErrors : ExecInsertFail(m, err)
    \/ GetDocuments("s1")
    \/ \E vector \in Vectors, allowList \in AllowLists, page \in Pages :
          Query("s1", vector, allowList, page[1], page[2])
    \/ ExecSelect
    \/ Pull

SpecQuery == InitQuery /\ [][NextQuery]_vars

\* Filters: one store with a supported algorithm, any embedding scope and
\* either column mapping.
FilterStoreConfigs ==
    {f \in [Stores -> Configs({EmptyScope}, {EmptyScope, [scope |-> "A"], [scope |-> NULL]},
                              SupportedAlgorithms, MapKinds)] :
        f["s2"] = f["s1"]}

InitFilter == InitWith(FilterStoreConfigs)

NextFilter ==
    \/ \E record \in WriteRecords : CreateDocument("s1", record)
    \/ \E key \in Keys, input \in FeedInputs : AppendStart(1, "s1", key, input)
    \/ AppendIssue(1)
    \/ AppendReturn(1)
    \/ \E m \in inflight : ExecInsertOk(m)
    \/ \E m \in inflight, err \in ExecutorErrors : ExecInsertFail(m, err)
    \/ \E vector \in Vectors, allowList \in AllowLists, page \in Pages :
          Query("s1", vector, allowList, page[1], page[2])
    \/ ExecSelect
    \/ Pull

SpecFilter == InitFilter /\ [][NextFilter]_vars


----------------------------------------------------------------------------
(* Properties *)

DocumentScopeOf(s) == stores[s].documentScope
EmbeddingScopeOf(s) == stores[s].embeddingScope
WrittenBy(c) == {w \in written : w.call = c}
EmbeddingRows(id) == {e \in embeddings : e["id"] = id}

\* Two scope mappings differ in the value of at least one scope column.
ScopesDiffer(scope1, scope2) ==
    \E column \in DOMAIN scope1 \cap DOMAIN scope2 : scope1[column] # scope2[column]

CreatedElsewhere(row, s) ==
    \E cr \in created :
        /\ cr.key = row["id"]
        /\ ScopesDiffer(DocumentScopeOf(cr.store), DocumentScopeOf(s))

\* C1: a document created through a store whose document scope differs in
\* the value of a scope column is neither returned by getDocumentByReference
\* nor yielded by getDocuments of this store.
C1_ReadIsolation ==
    /\ ret.op = "getDocumentByReference" =>
          \A row \in ret.result : ~CreatedElsewhere(row, ret.store)
    /\ stream.kind = "documents" =>
          \A i \in 1 .. stream.pulled : ~CreatedElsewhere(stream.buffer[i], stream.store)

\* C2: every document row holds, in each column of the document scope of
\* the store that created it, the scope's value; every embedding row holds,
\* in each column of the embedding scope of the store that appended it, the
\* scope's value.
C2_ScopeOnWrites ==
    /\ \A d \in documents : \A cr \in created :
          cr.key = d["id"] =>
             \A column \in DOMAIN DocumentScopeOf(cr.store) :
                Col(d, column) = DocumentScopeOf(cr.store)[column]
    /\ \A e \in embeddings : \A w \in written :
          w.id = e["id"] =>
             \A column \in DOMAIN EmbeddingScopeOf(calls[w.call].store) :
                Col(e, column) = EmbeddingScopeOf(calls[w.call].store)[column]

\* C3: getDocumentByReference(K) right after createDocument(r) returned K on
\* the same store returns a document with r's fields; right after delete(K)
\* on the same store it returns undefined without an error.
C3_LifecycleRoundTrip ==
    [][(/\ ret'.op = "getDocumentByReference"
        /\ ret'.store = ret.store
        /\ ret'.key = ret.key)
       => /\ (ret.op = "createDocument" /\ ret.status = "ok") =>
                \E row \in ret'.result :
                   \A field \in DOMAIN ret.record : Col(row, field) = ret.record[field]
          /\ ret.op = "delete" => (ret'.result = {} /\ ret'.status = "ok")]_vars

\* C4: every embedding row references a document row that exists.
C4_ReferentialIntegrity ==
    \A e \in embeddings : ForeignKeyHolds(e, ForeignKeyColumn, documents)

\* A delete removed the document while an append to it was under way: rows
\* the call had inserted are gone and its next insert was rejected.
C4_Witness ==
    /\ ret.op = "delete"
    /\ documents = {}
    /\ \E c \in Calls :
          /\ calls[c].error = "foreign_key_violation"
          /\ WrittenBy(c) # {}
    /\ embeddings = {}

\* C6: when the executor rejects the insert of the i-th embedding of an
\* append call, the call has inserted exactly the embeddings before it, in
\* input order; they stay in the table unless a delete removed their
\* document; the call has no further statement at the executor; and the
\* caller of append gets the executor's error.
C6_PartialFailure ==
    \A c \in Calls :
       LET call == calls[c]
       IN /\ call.rejected # "none" => call.pc = "failed"
          /\ call.pc = "failed" =>
                /\ call.error = call.rejected
                /\ call.rejected \in ExecutorErrors
                /\ {w.pos : w \in WrittenBy(c)} = 1 .. (call.i - 1)
                /\ \A w1, w2 \in WrittenBy(c) : w1.pos < w2.pos => w1.id < w2.id
                /\ \A m \in inflight : m.call # c
                /\ \A w \in WrittenBy(c) :
                      \/ \E e \in EmbeddingRows(w.id) :
                            Col(e, MapEmbeddingColumn(stores[call.store].mapEmbeddingColumn,
                                                      "text")) = call.input[w.pos].text
                      \/ ~\E d \in documents : d["id"] = call.document

\* The second insert of a call was rejected and its first row is in the table.
C6_Witness ==
    \E c \in Calls :
       /\ calls[c].pc = "failed"
       /\ calls[c].i = 2
       /\ calls[c].error = "connection_lost"
       /\ \E w \in WrittenBy(c) : w.pos = 1 /\ EmbeddingRows(w.id) # {}

\* C7: an append call has at most one statement at the executor; its
\* inserts are issued one per element in input order, the next only after
\* the previous completed; a call that returned has issued exactly as many
\* inserts as it had input embeddings, and none for an empty input; the rows
\* of a call are inserted in its own input order whatever other calls do.
C7_SequentialAppend ==
    \A c \in Calls :
       LET call == calls[c]
           done == {w.pos : w \in WrittenBy(c)}
           out == {m \in inflight : m.call = c}
       IN /\ Cardinality(out) <= 1
          /\ \E k \in 0 .. Len(call.input) : done = 1 .. k
          /\ \A m \in out : m.pos = Cardinality(done) + 1 /\ call.pc = "awaiting"
          /\ \A w1, w2 \in WrittenBy(c) : w1.pos < w2.pos => w1.id < w2.id
          /\ call.pc = "done" => (Cardinality(done) = Len(call.input) /\ out = {})
          /\ Len(call.input) = 0 => (done = {} /\ out = {})

\* Two calls appended two embeddings each to the same document, their
\* inserts interleaved, and both returned.
C7_Witness ==
    /\ calls[1].pc = "done" /\ calls[2].pc = "done"
    /\ calls[1].document = calls[2].document
    /\ [id |-> 1, call |-> 1, pos |-> 1] \in written
    /\ [id |-> 2, call |-> 2, pos |-> 1] \in written
    /\ [id |-> 3, call |-> 1, pos |-> 2] \in written
    /\ [id |-> 4, call |-> 2, pos |-> 2] \in written

\* The operator the documentation gives for an algorithm.
DocumentedOperator(algorithm) ==
    CASE algorithm = "l2" -> "<->"
      [] algorithm = "l1" -> "<+>"
      [] algorithm = "negative_inner_product" -> "<#>"
      [] algorithm = "cosine" -> "<=>"

\* C8: query sends a statement with the documented operator for a supported
\* algorithm, and for any other algorithm value throws a configuration error
\* without sending a statement.
C8_AlgorithmDispatch ==
    stream.kind = "query" =>
       IF stores[stream.store].algorithm \in SupportedAlgorithms
       THEN /\ stream.sent
            /\ stream.stmt.operator = DocumentedOperator(stores[stream.store].algorithm)
       ELSE /\ stream.state = "thrown"
            /\ ~stream.sent
            /\ stream.stmt.kind = "none"

\* C9: a stream of getDocuments or query holds at most one row the consumer
\* has not pulled yet.
C9_LazySequences ==
    stream.kind \in {"documents", "query"} =>
       Len(stream.buffer) - stream.pulled <= 1


\* The executor answers the pending query of the stream in this step.
QueryExecuted ==
    /\ stream.kind = "query"
    /\ stream.state = "pending"
    /\ stream'.kind = "query"
    /\ stream'.args = stream.args
    /\ stream'.state \in {"resolved", "failed"}

\* Append call c of the querying store returned, its document is a key
\* createDocument returned to that store, and the pending query asks, with
\* the default page, for that document alone and for the vector of the
\* call's j-th embedding.
RoundTripCase(c, j, algorithms) ==
    /\ calls[c].pc = "done"
    /\ calls[c].store = stream.store
    /\ j \in DOMAIN calls[c].input
    /\ calls[c].input[j].vector = stream.args.vector
    /\ stream.args.allowList = [given |-> TRUE, keys |-> {calls[c].document}]
    /\ stream.args.limit = DefaultLimit
    /\ stream.args.offset = DefaultOffset
    /\ stores[stream.store].algorithm \in algorithms
    /\ \E cr \in created : cr.key = calls[c].document /\ cr.store = stream.store

\* The idx-th result is the j-th embedding of call c.
IsResultOf(s, idx, c, j) ==
    /\ [id |-> s.rowids[idx], call |-> c, pos |-> j] \in written
    /\ s.buffer[idx].text = calls[c].input[j].text
    /\ s.buffer[idx].vector = calls[c].input[j].vector

\* A row satisfies every equality of an embedding scope.
PassesScope(e, scope) ==
    \A column \in DOMAIN scope : scope[column] # NULL /\ Col(e, column) = scope[column]

\* C5: for every supported algorithm, a query for the vector of an embedding
\* e appended to a fresh document, restricted to that document, yields e,
\* and yields nothing with a strictly smaller distance than e.
C5_AppendThenQuery ==
    [][\A c \in Calls : \A j \in 1 .. MaxInput + 1 :
          (QueryExecuted /\ RoundTripCase(c, j, SupportedAlgorithms))
          => /\ stream'.state = "resolved"
             /\ \E idx \in DOMAIN stream'.buffer :
                   /\ IsResultOf(stream', idx, c, j)
                   /\ \A k \in DOMAIN stream'.buffer :
                         ~DistanceLess(stream'.buffer[k].distance,
                                       stream'.buffer[idx].distance)]_vars

\* C10: every tuple a query yields comes from an embedding row that
\* satisfies every equality of the embedding scope and, when an allow-list is
\* given, belongs to a listed document; the statement has a WHERE clause
\* exactly when the scope is not empty or an allow-list is given, and the two
\* filters are joined by AND.
C10_QueryFiltering ==
    (stream.kind = "query" /\ stream.sent) =>
       LET scope == EmbeddingScopeOf(stream.store)
           allowList == stream.args.allowList
           columns == stream.stmt.columns
       IN /\ (stream.stmt.where # <<>>) <=> (DOMAIN scope # {} \/ allowList.given)
          /\ (DOMAIN scope # {} /\ allowList.given) =>
                (Len(stream.stmt.where) = 2 /\ stream.stmt.connectives = <<"AND">>)
          /\ \A i \in DOMAIN stream.buffer :
                \E e \in EmbeddingRows(stream.rowids[i]) :
                   /\ stream.buffer[i].text = e[columns.text]
                   /\ stream.buffer[i].document = e[columns.document]
                   /\ stream.buffer[i].vector = JsonParse(e[columns.vector])
                   /\ PassesScope(e, scope)
                   /\ allowList.given => stream.buffer[i].document \in allowList.keys

\* A query with a scope and an allow-list yielded a row of the listed
\* document and left out another row of that document, which holds another
\* scope value.
C10_Witness ==
    /\ stream.kind = "query" /\ stream.state = "resolved"
    /\ DOMAIN EmbeddingScopeOf(stream.store) # {}
    /\ stream.args.allowList.given
    /\ stream.args.limit = DefaultLimit /\ stream.args.offset = DefaultOffset
    /\ Len(stream.buffer) > 0
    /\ \E e \in embeddings :
          /\ e[stream.stmt.columns.document] \in stream.args.allowList.keys
          /\ \A i \in DOMAIN stream.rowids : stream.rowids[i] # e["id"]

====
